---------------------------- MODULE Spec2Model ----------------------------
(***************************************************************************)
(* Website analyzer: the three request handlers of the repository          *)
(*   "fetch" - src/api/analyze.js:2-429   (built-in fetch, regex checks)   *)
(*   "dom"   - src/api/analyze.js:431-776 (axios + cheerio checks)         *)
(*   "stub"  - src/unnamed/part_000       (fixed test response)            *)
(* JavaScript runs a handler to completion between awaits, so one action   *)
(* is one run-to-completion segment of one invocation.  The only await is  *)
(* the outbound GET.                                                       *)
(***************************************************************************)
EXTENDS Integers, Sequences, FiniteSets, TLC

VARIABLES
    pc,         \* per invocation: "idle", "received", "fetching", "done"
                \* ("compile": compileResults is about to be called on its own)
    variant,    \* per invocation: which handler serves it
    req,        \* per invocation: the request (method, body)
    res,        \* per invocation: the response object (headers, bodies sent)
    bodyRead,   \* per invocation: req.body has been destructured
    targetUrl,  \* per invocation: the normalised url (sequence of characters)
    gets,       \* per invocation: outbound GET requests issued
    fetched,    \* per invocation: what the GET produced
    buckets,    \* per invocation: the six category buckets
    console     \* per invocation: console.log / console.error tags, in order

vars == <<pc, variant, req, res, bodyRead, targetUrl, gets, fetched, buckets, console>>

(***************************************************************************)
(* Bounds                                                                  *)
(***************************************************************************)
NumInvocations == 2
MaxFragments == 2
MaxItems == 1

Invocations == 1..NumInvocations

Variants == {"fetch", "dom", "stub"}

(***************************************************************************)
(* Strings the code computes on are sequences of characters.               *)
(***************************************************************************)
RECURSIVE Repeat(_, _)
Repeat(c, n) == IF n = 0 THEN <<>> ELSE <<c>> \o Repeat(c, n - 1)

HttpPrefix == <<"h", "t", "t", "p", ":", "/", "/">>
HttpsPrefix == <<"h", "t", "t", "p", "s", ":", "/", "/">>
Host == <<"a", ".", "i", "o">>

\* String.prototype.startsWith
StartsWith(s, p) == Len(s) >= Len(p) /\ SubSeq(s, 1, Len(p)) = p

\* The url strings a client posts: no scheme, http, https, upper-case scheme,
\* and an https url of 61 characters.
UrlStrings ==
    { Host,
      HttpPrefix \o Host,
      HttpsPrefix \o Host,
      <<"H", "T", "T", "P", ":", "/", "/">> \o Host,
      HttpsPrefix \o Repeat("a", 49) \o Host }

\* A JSON value found at req.body.url.
Undefined == [kind |-> "undefined", chars |-> <<>>]
Str(s) == [kind |-> "string", chars |-> s]
Number42 == [kind |-> "number", chars |-> <<>>]

\* Mutant: the test is url === undefined, so the empty string passes.
Truthy_OnlyUndefined(v) == v.kind # "undefined"

\* JavaScript truthiness of such a value (!url is its negation).
Truthy(v) ==
    \/ v.kind = "number"
    \/ v.kind = "string" /\ v.chars # <<>>

UrlValues == {Undefined, Str(<<>>), Number42} \cup {Str(s) : s \in UrlStrings}

\* A request: req.body is undefined when the client sent no JSON body.
Requests ==
    [method : {"OPTIONS", "POST", "GET", "PUT"}, hasBody : {TRUE}, url : UrlValues]
    \cup [method : {"OPTIONS", "POST", "GET", "PUT"}, hasBody : {FALSE}, url : {Undefined}]


(***************************************************************************)
(* The fetched document.  A document is a set of fragments of a fixed       *)
(* vocabulary, laid out in vocabulary order.  A fragment carries the text   *)
(* tokens the substring tests read, the elements the regex / selector       *)
(* tests read, and the pieces its body text splits into on whitespace.      *)
(***************************************************************************)
NoFragment == [toks |-> <<>>, els |-> <<>>, pieces |-> 0]

Text(toks) == [NoFragment EXCEPT !.toks = toks]

Blank == [tag |-> "", attr |-> "", name |-> "", quote |-> "", content |-> -1,
          text |-> <<>>, alt |-> ""]

\* <title>text</title>
Title(text) == [NoFragment EXCEPT !.els = <<[Blank EXCEPT !.tag = "title", !.text = text]>>]

\* <meta attr="name" content="...">; content is its length, -1 with no content
\* attribute; quote is the quote character around the name.
Meta(attr, name, quote, content, toks) ==
    [NoFragment EXCEPT !.toks = toks,
        !.els = <<[Blank EXCEPT !.tag = "meta", !.attr = attr, !.name = name,
                                !.quote = quote, !.content = content, !.text = toks]>>]

\* <img ...>: alt is "none" (no alt attribute), "empty" (alt=""), "text"
\* (alt="x"), "upper" (ALT="x"), "data" (data-alt="x" and no alt attribute).
Img(alt) == [NoFragment EXCEPT !.els = <<[Blank EXCEPT !.tag = "img", !.alt = alt]>>]

H1 == [NoFragment EXCEPT !.els = <<[Blank EXCEPT !.tag = "h1"]>>]

LdJson == [NoFragment EXCEPT !.els = <<[Blank EXCEPT !.tag = "script", !.name = "application/ld+json"]>>]

Words(n) == [NoFragment EXCEPT !.pieces = n]

X(n) == Repeat("x", n)

\* The vocabulary, in document order.
Vocabulary ==
    << "title_empty", "title_29", "title_30", "title_60", "title_61",
       "title_60_padded", "title_multiline",
       "meta_description", "meta_description_160", "meta_description_161",
       "meta_description_single_quoted",
       "meta_og_title", "meta_og_description", "meta_viewport", "meta_generator",
       "h1_first", "h1_second",
       "img_no_alt", "img_no_alt_2", "img_alt", "img_alt_empty", "img_alt_upper",
       "img_data_alt",
       "theme_astra", "theme_unnamed", "theme_twentytwentyone",
       "plugin_akismet", "plugin_jetpack", "uploads", "wp_includes",
       "word_wordpress", "word_WordPress", "word_jetpack", "word_Jetpack",
       "word_contact", "mail_address", "word_Email",
       "word_shop", "word_woocommerce", "schema_org", "ld_json",
       "cut_off_needle", "words_299", "words_300" >>

FragmentIds == {Vocabulary[k] : k \in 1..Len(Vocabulary)}

FragmentText(id) ==
    CASE id = "title_empty" -> Title(<<>>)
      [] id = "title_29" -> Title(X(29))
      [] id = "title_30" -> Title(X(30))
      [] id = "title_60" -> Title(X(60))
      [] id = "title_61" -> Title(X(61))
      [] id = "title_60_padded" -> Title(<<" ">> \o X(60) \o <<" ">>)
      [] id = "title_multiline" -> Title(X(20) \o <<"\n">> \o X(20))
      [] id = "meta_description" -> Meta("name", "description", "\"", 120, <<>>)
      [] id = "meta_description_160" -> Meta("name", "description", "\"", 160, <<>>)
      [] id = "meta_description_161" -> Meta("name", "description", "\"", 161, <<>>)
      [] id = "meta_description_single_quoted" -> Meta("name", "description", "'", 120, <<>>)
      [] id = "meta_og_title" -> Meta("property", "og:title", "\"", 10, <<>>)
      [] id = "meta_og_description" -> Meta("property", "og:description", "\"", 10, <<>>)
      [] id = "meta_viewport" -> Meta("name", "viewport", "\"", 18, <<>>)
      [] id = "meta_generator" -> Meta("name", "generator", "\"", 13, <<"WordPress", " 6.4">>)
      [] id = "h1_first" -> H1
      [] id = "h1_second" -> H1
      [] id = "img_no_alt" -> Img("none")
      [] id = "img_no_alt_2" -> Img("none")
      [] id = "img_alt" -> Img("text")
      [] id = "img_alt_empty" -> Img("empty")
      [] id = "img_alt_upper" -> Img("upper")
      [] id = "img_data_alt" -> Img("data")
      [] id = "theme_astra" -> Text(<<"wp-content", "/themes/", "astra", "/", "style.css">>)
      [] id = "theme_unnamed" -> Text(<<"wp-content", "/themes/", "/", "style.css">>)
      [] id = "theme_twentytwentyone" -> Text(<<"wp-content", "/themes/", "twentytwenty", "one", "/">>)
      [] id = "plugin_akismet" -> Text(<<"wp-content", "/plugins/", "akismet", "/">>)
      [] id = "plugin_jetpack" -> Text(<<"wp-content", "/plugins/", "jetpack", "/">>)
      [] id = "uploads" -> Text(<<"wp-content", "/uploads/", "a.png">>)
      [] id = "wp_includes" -> Text(<<"wp-includes", "/js/">>)
      [] id = "word_wordpress" -> Text(<<"wordpress">>)
      [] id = "word_WordPress" -> Text(<<"Powered by ", "WordPress">>)
      [] id = "word_jetpack" -> Text(<<"jetpack">>)
      [] id = "word_Jetpack" -> Text(<<"Jetpack">>)
      [] id = "word_contact" -> Text(<<"contact">>)
      [] id = "mail_address" -> Text(<<"info", "@", "a.io">>)
      [] id = "word_Email" -> Text(<<"Email">>)
      [] id = "word_shop" -> Text(<<"shop">>)
      [] id = "word_woocommerce" -> Text(<<"woocommerce">>)
      [] id = "schema_org" -> Text(<<"schema.org">>)
      [] id = "ld_json" -> LdJson
      [] id = "cut_off_needle" -> Text(<<"(needle cut off at line 204)">>)
      [] id = "words_299" -> Words(299)
      [] id = "words_300" -> Words(300)

\* The vocabulary as a table, computed once.
FragmentTable == [id \in FragmentIds |-> FragmentText(id)]

Fragment(id) == FragmentTable[id]

\* Documents of at most n fragments.
RECURSIVE DocsUpTo(_)
DocsUpTo(n) ==
    IF n = 0 THEN {{}}
    ELSE LET smaller == DocsUpTo(n - 1)
         IN  smaller \cup {d \cup {f} : d \in smaller, f \in FragmentIds}

Docs == DocsUpTo(MaxFragments)

\* The fragments of a document, in document order.
Layout(doc) == SelectSeq(Vocabulary, LAMBDA id : id \in doc)

RECURSIVE Flatten(_)
Flatten(ss) == IF ss = <<>> THEN <<>> ELSE Head(ss) \o Flatten(Tail(ss))

\* The text tokens of the html string; a line break separates fragments.
Toks(doc) ==
    LET lay == Layout(doc)
    IN  Flatten([k \in 1..Len(lay) |-> Fragment(lay[k]).toks \o <<"\n">>])

\* The elements of the html string, in document order.
Els(doc) ==
    LET lay == Layout(doc)
    IN  Flatten([k \in 1..Len(lay) |-> Fragment(lay[k]).els])

ElsOf(doc, tag) == SelectSeq(Els(doc), LAMBDA e : e.tag = tag)

\* String.prototype.toLowerCase, token by token.
ToLowerCase(tok) ==
    CASE tok = "WordPress" -> "wordpress"
      [] tok = "Jetpack" -> "jetpack"
      [] tok = "Email" -> "email"
      [] tok = "Powered by " -> "powered by "
      [] OTHER -> tok

LowerToks(doc) == LET t == Toks(doc) IN [k \in 1..Len(t) |-> ToLowerCase(t[k])]

\* String.prototype.includes on token sequences.
Includes(toks, needle) ==
    \E k \in 1..Len(toks) :
        /\ k + Len(needle) - 1 <= Len(toks)
        /\ SubSeq(toks, k, k + Len(needle) - 1) = needle

\* String.prototype.trim on a sequence of characters.
IsSpace(c) == c \in {" ", "\n", "\t"}

RECURSIVE TrimStart(_)
TrimStart(s) == IF s # <<>> /\ IsSpace(Head(s)) THEN TrimStart(Tail(s)) ELSE s

RECURSIVE TrimEnd(_)
TrimEnd(s) ==
    IF s # <<>> /\ IsSpace(s[Len(s)]) THEN TrimEnd(SubSeq(s, 1, Len(s) - 1)) ELSE s

Trim(s) == TrimEnd(TrimStart(s))

LoadTimes == {2999, 3000, 3001}

(***************************************************************************)
(* Advisory items.  text is the source's string with its ${...} left in    *)
(* place; num and str are the interpolated number or string (tokens).      *)
(***************************************************************************)
Item(text, source) == [text |-> text, source |-> source, num |-> 0, str |-> <<>>]
ItemNum(text, n, source) == [text |-> text, source |-> source, num |-> n, str |-> <<>>]
ItemStr(text, s, source) == [text |-> text, source |-> source, num |-> 0, str |-> s]

Opt(cond, item) == IF cond THEN <<item>> ELSE <<>>

UseHttps == Item("Site should use HTTPS for security and SEO benefits", "Google HTTPS ranking factor")
UrlTooLong == Item("URL is quite long - consider shortening for better SEO", "SEO best practices")
MissingTitle == Item("Missing page title - add a descriptive title tag", "Google SEO guidelines")
TitleTooLong(n) == ItemNum("Page title is ${title.length} characters - should be 50-60 for optimal display", n, "Google SERP optimization")
TitleTooShort == Item("Page title seems short - consider making it more descriptive", "SEO title optimization")
MissingDescription == Item("Missing meta description - add one for better search results", "Google SEO best practices")
DescriptionTooLong(n) == ItemNum("Meta description is ${metaDesc.length} characters - should be 150-160", n, "Google SERP guidelines")
ImagesWithoutAlt(n) == ItemNum("Found ${imagesWithoutAlt} images without alt text - add for accessibility", n, "WCAG 2.1 accessibility standards")
NoH1 == Item("No H1 heading found - add one for better SEO structure", "SEO heading hierarchy")
MultipleH1(n) == ItemNum("Found ${h1Count} H1 headings - should typically have only one per page", n, "SEO best practices")
WordPressDetected == Item("WordPress site detected - great choice for content management", "WordPress site analysis")
ThemeInUse(name) == ItemStr("Using WordPress theme: ${themeMatch[1]} - ensure it's regularly updated", name, "WordPress security best practices")
BusinessPlan == Item("Consider upgrading to WordPress.com Business plan for advanced customization and SEO tools", "WordPress.com plan recommendations for growing sites")
BusinessPlanShop == Item("Site mentions products/shopping - consider WordPress.com Business plan with WooCommerce for e-commerce", "E-commerce functionality analysis")
InstallJetpack == Item("Consider installing Jetpack for enhanced performance and security", "WordPress.com recommendations")
OptimizeImages == Item("Optimize images using WordPress.com built-in compression", "WordPress.com performance features")
MigrateToWordPress == Item("Consider migrating to WordPress.com for better content management", "Platform recommendation")
SlowLoad(tenths) == ItemNum("Page loaded in ${(loadTime/1000).toFixed(1)} seconds - should be under 3 seconds", tenths, "Google Core Web Vitals")
MissingOpenGraph == Item("Missing Open Graph tags - add for better social media sharing", "Facebook Open Graph documentation")
LimitedContent == Item("Page has limited content - consider adding more valuable information", "Content quality guidelines")
NoContactInfo == Item("No obvious contact information found - make it easy for users to reach you", "User experience best practices")
MissingViewport == Item("Missing viewport meta tag - important for mobile responsiveness", "Google Mobile-First indexing")
NoStructuredData == Item("No structured data found - consider adding schema markup", "Google structured data guidelines")
GenericPerformance == Item("Consider implementing image optimization and caching for better performance", "Web performance best practices")
GenericCallToAction == Item("Add clear call-to-action buttons to guide user behavior", "Conversion optimization guidelines")
UnableToAnalyze == Item("Unable to fully analyze site - ensure it's publicly accessible", "Site accessibility check")
ConsiderHosting == Item("Consider WordPress.com hosting for reliable performance and security", "WordPress.com hosting benefits")

EmptyBuckets ==
    [seo |-> <<>>, performance |-> <<>>, wordpress |-> <<>>, ux |-> <<>>,
     accessibility |-> <<>>, content |-> <<>>]

\* (loadTime/1000).toFixed(1), in tenths of a second (LoadTimes holds no tie).
ToFixed1(ms) == (ms + 50) \div 100

SlowLoadThreshold == 3000
TitleMax == 60
TitleMin == 30
UrlMax == 60
DescriptionMax == 160
ContentMin == 300

\* Mutant: the comparison is >=.
PerformanceCheck_AtLeast(loadTime) == Opt(loadTime >= SlowLoadThreshold, SlowLoad(ToFixed1(loadTime)))

\* Both variants: if (loadTime > 3000) performance.push(...)
PerformanceCheck(loadTime) == Opt(loadTime > SlowLoadThreshold, SlowLoad(ToFixed1(loadTime)))

\* Both variants: if (bucket.length === 0) bucket.push(generic)
OrGeneric(bucket, generic) == IF Len(bucket) = 0 THEN <<generic>> ELSE bucket

\* The theme name /wp-content\/themes\/([^\/]+)/ captures: the tokens after the
\* first "wp-content/themes/" that is followed by something other than "/",
\* up to the next "/"; <<>> when the pattern does not match.
RECURSIVE UpToSlash(_)
UpToSlash(toks) ==
    IF toks = <<>> \/ Head(toks) = "/" \/ Head(toks) = "/js/" \/ Head(toks) = "/themes/"
       \/ Head(toks) = "/plugins/" \/ Head(toks) = "/uploads/"
    THEN <<>>
    ELSE <<Head(toks)>> \o UpToSlash(Tail(toks))

ThemeMatch(toks) ==
    LET at == {k \in 1..(Len(toks) - 1) :
                  /\ toks[k] = "wp-content" /\ toks[k + 1] = "/themes/"
                  /\ UpToSlash(SubSeq(toks, k + 2, Len(toks))) # <<>>}
    IN  IF at = {} THEN <<>>
        ELSE LET k == CHOOSE m \in at : \A n \in at : m <= n
             IN  UpToSlash(SubSeq(toks, k + 2, Len(toks)))

(***************************************************************************)
(* analyzeHTML: the regex / substring checks of the fetch variant.         *)
(***************************************************************************)
\* html.match(/<title[^>]*>(.*?)<\/title>/i): the text of the first title
\* element whose text holds no line break ("." does not match one);
\* matched is FALSE when there is none.
TitleRegex(doc) ==
    LET onOneLine == SelectSeq(ElsOf(doc, "title"),
                               LAMBDA e : ~Includes(e.text, <<"\n">>))
    IN  IF onOneLine = <<>> THEN [matched |-> FALSE, text |-> <<>>]
        ELSE [matched |-> TRUE, text |-> onOneLine[1].text]

\* htmlLower.includes('attr="name"'): the text is there when an element
\* writes the attribute in double quotes.
HtmlIncludesAttr(doc, attr, name) ==
    SelectSeq(Els(doc), LAMBDA e : e.attr = attr /\ e.name = name /\ e.quote = "\"") # <<>>

\* lines 117-137
FetchTitleCheck(doc) ==
    LET titleMatch == TitleRegex(doc)
        title == Trim(titleMatch.text)
    IN  IF ~titleMatch.matched THEN <<MissingTitle>>
        ELSE IF Len(title) > TitleMax THEN <<TitleTooLong(Len(title))>>
        ELSE IF Len(title) < TitleMin THEN <<TitleTooShort>>
        ELSE <<>>

\* lines 147-161: <img ...> tags whose text does not include 'alt=' (the
\* test is case sensitive, and 'data-alt=' includes 'alt=')
FetchImagesWithoutAlt(doc) ==
    Len(SelectSeq(ElsOf(doc, "img"), LAMBDA e : e.alt \in {"none", "upper"}))

\* lines 163-175 (and 531-543)
H1Check(h1Count) ==
    IF h1Count = 0 THEN <<NoH1>>
    ELSE IF h1Count > 1 THEN <<MultipleH1(h1Count)>>
    ELSE <<>>

\* lines 177-180
FetchIsWordPress(doc) ==
    LET htmlLower == LowerToks(doc)
    IN  \/ Includes(htmlLower, <<"wp-content">>)
        \/ Includes(htmlLower, <<"wordpress">>)
        \/ Includes(htmlLower, <<"wp-includes">>)

\* lines 182-204, 302-333
FetchWordPressCheck(doc) ==
    LET htmlLower == LowerToks(doc)
        has(needle) == Includes(htmlLower, needle)
        isWordPress == FetchIsWordPress(doc)
        hasCustomTheme ==
            /\ has(<<"wp-content", "/themes/">>)
            /\ ~has(<<"twentytwenty">>)
            /\ ~has(<<"twentynineteen">>)
            /\ ~has(<<"twentyeighteen">>)
        hasPlugins == has(<<"wp-content", "/plugins/">>)
        hasJetpack == has(<<"jetpack">>)
        hasEcommerce ==
            \/ has(<<"shop">>) \/ has(<<"buy">>) \/ has(<<"cart">>)
            \/ has(<<"product">>) \/ has(<<"store">>) \/ has(<<"price">>)
            \/ has(<<"(needle cut off at line 204)">>)
    IN  IF isWordPress
        THEN <<WordPressDetected>>
             \o Opt(~hasCustomTheme /\ ~hasPlugins, BusinessPlan)
             \o Opt(hasEcommerce /\ ~has(<<"woocommerce">>), BusinessPlanShop)
             \o Opt(~hasJetpack, InstallJetpack)
             \o <<OptimizeImages>>
        ELSE <<MigrateToWordPress>>

\* lines 351-365
FetchUxCheck(doc) ==
    LET htmlLower == LowerToks(doc)
    IN  Opt(~HtmlIncludesAttr(doc, "name", "viewport"), MissingViewport)
        \o Opt(/\ ~Includes(htmlLower, <<"contact">>)
               /\ ~Includes(htmlLower, <<"@">>)
               /\ ~Includes(htmlLower, <<"email">>), NoContactInfo)

\* lines 97-380: the buckets before they are compiled
AnalyzeHTMLBuckets(doc, url, loadTime) ==
    LET n == FetchImagesWithoutAlt(doc)
    IN  [seo |-> Opt(~StartsWith(url, HttpsPrefix), UseHttps)
                 \o FetchTitleCheck(doc)
                 \o Opt(~HtmlIncludesAttr(doc, "name", "description"), MissingDescription)
                 \o H1Check(Len(ElsOf(doc, "h1")))
                 \o Opt(~HtmlIncludesAttr(doc, "property", "og:title"), MissingOpenGraph),
         performance |-> OrGeneric(PerformanceCheck(loadTime), GenericPerformance),
         wordpress |-> FetchWordPressCheck(doc),
         ux |-> OrGeneric(FetchUxCheck(doc), GenericCallToAction),
         accessibility |-> Opt(n > 0, ImagesWithoutAlt(n)),
         content |-> <<>>]

(***************************************************************************)
(* Output groups.  Icons are written by name.                              *)
(***************************************************************************)
Group(category, icon, priority, items) ==
    [category |-> category, icon |-> icon, priority |-> priority, items |-> items]

GroupIf(category, icon, priority, items) ==
    IF Len(items) > 0 THEN <<Group(category, icon, priority, items)>> ELSE <<>>

\* lines 382-428: the fetch variant compiles five groups; contentIssues is
\* declared and never read.
AnalyzeHTMLCompile(b) ==
    GroupIf("SEO Optimization", "magnifier", "high", b.seo)
    \o GroupIf("WordPress.com Specific", "bolt", "high", b.wordpress)
    \o GroupIf("Performance", "rocket", "medium", b.performance)
    \o GroupIf("User Experience", "person", "medium", b.ux)
    \o GroupIf("Accessibility", "wheelchair", "low", b.accessibility)

\* Mutant: the groups follow the order the buckets are declared in (line 441).
compileResults_DeclarationOrder(improvements) ==
    GroupIf("SEO Optimization", "magnifier", "high", improvements.seo)
    \o GroupIf("Performance", "rocket", "medium", improvements.performance)
    \o GroupIf("WordPress.com Specific", "bolt", "high", improvements.wordpress)
    \o GroupIf("User Experience", "person", "medium", improvements.ux)
    \o GroupIf("Accessibility", "wheelchair", "low", improvements.accessibility)
    \o GroupIf("Content & Structure", "writing hand", "medium", improvements.content)

\* lines 673-731
compileResults(improvements) ==
    GroupIf("SEO Optimization", "magnifier", "high", improvements.seo)
    \o GroupIf("WordPress.com Specific", "bolt", "high", improvements.wordpress)
    \o GroupIf("Performance", "rocket", "medium", improvements.performance)
    \o GroupIf("User Experience", "person", "medium", improvements.ux)
    \o GroupIf("Content & Structure", "writing hand", "medium", improvements.content)
    \o GroupIf("Accessibility", "wheelchair", "low", improvements.accessibility)

\* lines 64-83
fallbackResults ==
    << Group("Site Access", "warning", "high",
             << Item("Unable to fully analyze site - may have access restrictions", "Connection analysis"),
                Item("Ensure site is publicly accessible and not blocking automated requests", "Accessibility check") >>),
       Group("WordPress.com Recommendations", "bolt", "high",
             << Item("Consider WordPress.com hosting for reliable performance and security", "WordPress.com benefits"),
                Item("WordPress.com sites are optimized for speed and SEO out of the box", "Platform optimization") >>) >>

\* part_000 lines 22-32
TestResults ==
    << Group("Test Results", "check mark", "high",
             << Item("API is working! This is a test response.", "API Test"),
                Item("Your backend is successfully deployed on Vercel", "Deployment Test") >>) >>

(***************************************************************************)
(* analyzeWebsite: the cheerio checks of the dom variant.                  *)
(***************************************************************************)
\* $('title').text(): the text of every title element, concatenated.
TitleText(doc) ==
    LET t == ElsOf(doc, "title")
    IN  Flatten([k \in 1..Len(t) |-> t[k].text])

\* $('meta[attr="name"]').attr('content'): the content length of the first
\* such element, -1 (undefined) when there is none or it has no content.
MetaContent(doc, attr, name) ==
    LET m == SelectSeq(ElsOf(doc, "meta"), LAMBDA e : e.attr = attr /\ e.name = name)
    IN  IF m = <<>> THEN -1 ELSE m[1].content

\* !value for such a content: undefined or the empty string
NoContent(len) == len <= 0

\* lines 482-499
DomTitleCheck(doc) ==
    LET title == Trim(TitleText(doc))
    IN  IF title = <<>> THEN <<MissingTitle>>
        ELSE IF Len(title) > TitleMax THEN <<TitleTooLong(Len(title))>>
        ELSE IF Len(title) < TitleMin THEN <<TitleTooShort>>
        ELSE <<>>

\* lines 501-513
DomDescriptionCheck(doc) ==
    LET metaDesc == MetaContent(doc, "name", "description")
    IN  IF NoContent(metaDesc) THEN <<MissingDescription>>
        ELSE IF metaDesc > DescriptionMax THEN <<DescriptionTooLong(metaDesc)>>
        ELSE <<>>

\* lines 515-522: img elements whose alt attribute is missing or empty
DomImagesWithoutAlt(doc) ==
    Len(SelectSeq(ElsOf(doc, "img"), LAMBDA e : e.alt \in {"none", "empty", "data"}))

\* lines 545-548
DomIsWordPress(doc) ==
    LET html == Toks(doc)
        generator == SelectSeq(ElsOf(doc, "meta"),
                               LAMBDA e : e.attr = "name" /\ e.name = "generator")
    IN  \/ Includes(html, <<"wp-content">>)
        \/ Includes(html, <<"wordpress">>)
        \/ generator # <<>> /\ generator[1].content >= 0
                            /\ Includes(generator[1].text, <<"WordPress">>)

\* lines 550-573, 631-637
DomWordPressCheck(doc) ==
    LET html == Toks(doc)
        themeMatch == ThemeMatch(html)
    IN  IF DomIsWordPress(doc)
        THEN <<WordPressDetected>>
             \o Opt(Includes(html, <<"wp-content", "/themes/">>) /\ themeMatch # <<>>,
                    ThemeInUse(themeMatch))
             \o Opt(~Includes(html, <<"jetpack">>), InstallJetpack)
             \o <<OptimizeImages>>
        ELSE <<>>

\* lines 593-602: $('body').text().split(/\s+/).length; an empty text splits
\* into one (empty) piece.
WordCount(doc) ==
    LET lay == Layout(doc)
        sum[k \in 0..Len(lay)] ==
            IF k = 0 THEN 0 ELSE sum[k - 1] + Fragment(lay[k]).pieces
    IN  IF sum[Len(lay)] = 0 THEN 1 ELSE sum[Len(lay)]

\* lines 604-621
DomUxCheck(doc) ==
    LET lower == LowerToks(doc)
    IN  Opt(/\ ~Includes(lower, <<"contact">>)
            /\ ~Includes(lower, <<"email">>)
            /\ ~Includes(lower, <<"@">>), NoContactInfo)
        \o Opt(NoContent(MetaContent(doc, "name", "viewport")), MissingViewport)

\* lines 466-543: what has been pushed when line 545 is reached
DomBeforeDetection(doc, url) ==
    LET n == DomImagesWithoutAlt(doc)
    IN  [EmptyBuckets EXCEPT
            !.seo = Opt(~StartsWith(url, HttpsPrefix), UseHttps)
                    \o Opt(Len(url) > UrlMax, UrlTooLong)
                    \o DomTitleCheck(doc)
                    \o DomDescriptionCheck(doc)
                    \o H1Check(Len(ElsOf(doc, "h1"))),
            !.accessibility = Opt(n > 0, ImagesWithoutAlt(n))]

\* lines 545-652: the rest of the try block
DomFromDetection(b, doc, loadTime) ==
    [b EXCEPT
        !.seo = @ \o Opt(\/ NoContent(MetaContent(doc, "property", "og:title"))
                         \/ NoContent(MetaContent(doc, "property", "og:description")),
                         MissingOpenGraph)
                  \o Opt(/\ ~Includes(Toks(doc), <<"schema.org">>)
                         /\ Len(SelectSeq(ElsOf(doc, "script"),
                                          LAMBDA e : e.name = "application/ld+json")) = 0,
                         NoStructuredData),
        !.wordpress = DomWordPressCheck(doc),
        !.performance = OrGeneric(PerformanceCheck(loadTime), GenericPerformance),
        !.content = Opt(WordCount(doc) < ContentMin, LimitedContent),
        !.ux = OrGeneric(DomUxCheck(doc), GenericCallToAction)]

\* lines 654-667: the catch block of analyzeWebsite
DomCatch(b) ==
    [b EXCEPT !.seo = Append(@, UnableToAnalyze),
              !.wordpress = Append(@, ConsiderHosting)]

\* lines 440-670 on a document that was fetched and is a string
analyzeWebsite(doc, url, loadTime) ==
    DomFromDetection(DomBeforeDetection(doc, url), doc, loadTime)

(***************************************************************************)
(* The handlers.                                                           *)
(***************************************************************************)
NoRequest == [method |-> "", hasBody |-> FALSE, url |-> Undefined]
NoResponse == [headers |-> {}, sent |-> <<>>]
NothingFetched == [kind |-> "none", doc |-> {}, loadTime |-> 0, cause |-> ""]

\* What a response carries: nothing (end()), {error}, or {url, improvements}.
EmptyBody == [kind |-> "empty", error |-> "", url |-> Undefined, improvements |-> <<>>]
ErrorBody(message) == [EmptyBody EXCEPT !.kind = "error", !.error = message]
ResultBody(url, improvements) ==
    [EmptyBody EXCEPT !.kind = "result", !.url = url, !.improvements = improvements]

\* lines 3-5 (736-738, part_000 3-5): res.setHeader, three times
SetCorsHeaders(r) ==
    [r EXCEPT !.headers = { "Access-Control-Allow-Origin: *",
                            "Access-Control-Allow-Methods: POST, OPTIONS",
                            "Access-Control-Allow-Headers: Content-Type" }]

\* res.status(code).json(body) / res.json(body) / res.status(code).end()
Send(r, status, body) == [r EXCEPT !.sent = Append(@, [status |-> status, body |-> body])]

\* Mutant: only the https prefix is recognised.
NormalizeUrl_HttpsOnly(url) ==
    IF ~StartsWith(url, HttpsPrefix) THEN HttpsPrefix \o url ELSE url

\* lines 24-28 (756-760): Ensure URL has protocol
NormalizeUrl(url) ==
    IF ~StartsWith(url, HttpPrefix) /\ ~StartsWith(url, HttpsPrefix)
    THEN HttpsPrefix \o url
    ELSE url

Init ==
    /\ pc = [i \in Invocations |-> "idle"]
    /\ variant = [i \in Invocations |-> ""]
    /\ req = [i \in Invocations |-> NoRequest]
    /\ res = [i \in Invocations |-> NoResponse]
    /\ bodyRead = [i \in Invocations |-> FALSE]
    /\ targetUrl = [i \in Invocations |-> <<>>]
    /\ gets = [i \in Invocations |-> 0]
    /\ fetched = [i \in Invocations |-> NothingFetched]
    /\ buckets = [i \in Invocations |-> EmptyBuckets]
    /\ console = [i \in Invocations |-> <<>>]

\* The hosting runtime hands one of the requests rs to one of the handlers.
ReceiveOneOf(i, rs) ==
    /\ pc[i] = "idle"
    /\ \E v \in Variants, r \in rs :
          /\ variant' = [variant EXCEPT ![i] = v]
          /\ req' = [req EXCEPT ![i] = r]
    /\ pc' = [pc EXCEPT ![i] = "received"]
    /\ UNCHANGED <<res, bodyRead, targetUrl, gets, fetched, buckets, console>>

Receive(i) == ReceiveOneOf(i, Requests)

\* Mutant: the return of line 10 is missing, so the handler goes on to the
\* method test of line 12 and answers a second time.
HandleOptions_NoReturn(i) ==
    /\ pc[i] = "received"
    /\ req[i].method = "OPTIONS"
    /\ res' = [res EXCEPT ![i] =
          Send(Send(SetCorsHeaders(@), 200, EmptyBody), 405, ErrorBody("Method not allowed"))]
    /\ pc' = [pc EXCEPT ![i] = "done"]
    /\ UNCHANGED <<variant, req, bodyRead, targetUrl, gets, fetched, buckets, console>>

\* lines 7-10 (740-743, part_000 7-10)
HandleOptions(i) ==
    /\ pc[i] = "received"
    /\ req[i].method = "OPTIONS"
    /\ res' = [res EXCEPT ![i] = Send(SetCorsHeaders(@), 200, EmptyBody)]
    /\ pc' = [pc EXCEPT ![i] = "done"]
    /\ UNCHANGED <<variant, req, bodyRead, targetUrl, gets, fetched, buckets, console>>

\* Mutant: the method test comes after the body has been read and validated.
HandleOtherMethod_AfterValidation(i) ==
    /\ pc[i] = "received"
    /\ req[i].method # "OPTIONS"
    /\ req[i].method # "POST"
    /\ bodyRead' = [bodyRead EXCEPT ![i] = TRUE]
    /\ res' = [res EXCEPT ![i] =
          IF req[i].hasBody /\ Truthy(req[i].url)
          THEN Send(SetCorsHeaders(@), 405, ErrorBody("Method not allowed"))
          ELSE Send(SetCorsHeaders(@), 400, ErrorBody("URL is required"))]
    /\ pc' = [pc EXCEPT ![i] = "done"]
    /\ UNCHANGED <<variant, req, targetUrl, gets, fetched, buckets, console>>

\* lines 12-14 (745-747, part_000 12-14)
HandleOtherMethod(i) ==
    /\ pc[i] = "received"
    /\ req[i].method # "OPTIONS"
    /\ req[i].method # "POST"
    /\ res' = [res EXCEPT ![i] = Send(SetCorsHeaders(@), 405, ErrorBody("Method not allowed"))]
    /\ pc' = [pc EXCEPT ![i] = "done"]
    /\ UNCHANGED <<variant, req, bodyRead, targetUrl, gets, fetched, buckets, console>>

\* lines 91-94 (772-775, part_000 35-38): the handler's outer catch
ServerError(i) ==
    /\ console' = [console EXCEPT ![i] = Append(@, "Server error:")]
    /\ res' = [res EXCEPT ![i] = Send(SetCorsHeaders(@), 500, ErrorBody("Analysis failed"))]
    /\ pc' = [pc EXCEPT ![i] = "done"]

\* line 18 (750, part_000 17): const { url } = req.body throws a TypeError
\* when req.body is undefined
HandleNoBody(i) ==
    /\ pc[i] = "received"
    /\ req[i].method = "POST"
    /\ ~req[i].hasBody
    /\ bodyRead' = [bodyRead EXCEPT ![i] = TRUE]
    /\ ServerError(i)
    /\ UNCHANGED <<variant, req, targetUrl, gets, fetched, buckets>>

\* part_000 lines 16-33
HandleStub(i) ==
    /\ pc[i] = "received"
    /\ variant[i] = "stub"
    /\ req[i].method = "POST"
    /\ req[i].hasBody
    /\ bodyRead' = [bodyRead EXCEPT ![i] = TRUE]
    /\ res' = [res EXCEPT ![i] = Send(SetCorsHeaders(@), 200, ResultBody(req[i].url, TestResults))]
    /\ pc' = [pc EXCEPT ![i] = "done"]
    /\ UNCHANGED <<variant, req, targetUrl, gets, fetched, buckets, console>>

\* lines 18-22 (750-754)
HandleMissingUrl(i) ==
    /\ pc[i] = "received"
    /\ variant[i] \in {"fetch", "dom"}
    /\ req[i].method = "POST"
    /\ req[i].hasBody
    /\ ~Truthy(req[i].url)
    /\ bodyRead' = [bodyRead EXCEPT ![i] = TRUE]
    /\ res' = [res EXCEPT ![i] = Send(SetCorsHeaders(@), 400, ErrorBody("URL is required"))]
    /\ pc' = [pc EXCEPT ![i] = "done"]
    /\ UNCHANGED <<variant, req, targetUrl, gets, fetched, buckets, console>>

\* lines 25-26 (757-758): targetUrl.startsWith is not a function when url is
\* a truthy value that is no string
HandleUrlNotString(i) ==
    /\ pc[i] = "received"
    /\ variant[i] \in {"fetch", "dom"}
    /\ req[i].method = "POST"
    /\ req[i].hasBody
    /\ Truthy(req[i].url)
    /\ req[i].url.kind # "string"
    /\ bodyRead' = [bodyRead EXCEPT ![i] = TRUE]
    /\ ServerError(i)
    /\ UNCHANGED <<variant, req, targetUrl, gets, fetched, buckets>>

\* lines 18-43 (750-764, 453-458): normalise the url and issue the GET
StartFetch(i) ==
    /\ pc[i] = "received"
    /\ variant[i] \in {"fetch", "dom"}
    /\ req[i].method = "POST"
    /\ req[i].hasBody
    /\ Truthy(req[i].url)
    /\ req[i].url.kind = "string"
    /\ bodyRead' = [bodyRead EXCEPT ![i] = TRUE]
    /\ targetUrl' = [targetUrl EXCEPT ![i] = NormalizeUrl(req[i].url.chars)]
    /\ console' = [console EXCEPT ![i] = Append(@, "Analyzing:")]
    /\ res' = [res EXCEPT ![i] = SetCorsHeaders(@)]
    /\ gets' = [gets EXCEPT ![i] = @ + 1]
    /\ pc' = [pc EXCEPT ![i] = "fetching"]
    /\ UNCHANGED <<variant, req, fetched, buckets>>

\* Mutant: the buckets are declared at module level, so every call pushes
\* into the one object and finds what the calls before it have pushed.
NewResults_ModuleLevel(i) ==
    LET others == Invocations \ {i}
        size(b) == Len(b.seo) + Len(b.performance) + Len(b.wordpress)
                   + Len(b.ux) + Len(b.accessibility) + Len(b.content)
        fullest == CHOOSE j \in others : \A k \in others : size(buckets[k]) <= size(buckets[j])
    IN  buckets[fullest]

\* lines 441-448 (98-104): the buckets are constants local to the call,
\* created empty by each call of analyzeWebsite (analyzeHTML)
NewResults(i) == EmptyBuckets

\* push: what a call adds goes behind what its buckets hold
PushAll(results, added) ==
    [seo |-> results.seo \o added.seo,
     performance |-> results.performance \o added.performance,
     wordpress |-> results.wordpress \o added.wordpress,
     ux |-> results.ux \o added.ux,
     accessibility |-> results.accessibility \o added.accessibility,
     content |-> results.content \o added.content]

\* lines 45-58 (459-652, 764-770): the GET answered 2xx with a text body,
\* one of docs, after one of loadTimes milliseconds
FetchSucceedsWith(i, docs, loadTimes) ==
    /\ pc[i] = "fetching"
    /\ \E doc \in docs, loadTime \in loadTimes :
          \E b \in {PushAll(NewResults(i),
                            IF variant[i] = "fetch"
                            THEN AnalyzeHTMLBuckets(doc, targetUrl[i], loadTime)
                            ELSE analyzeWebsite(doc, targetUrl[i], loadTime))} :
          LET results == IF variant[i] = "fetch" THEN AnalyzeHTMLCompile(b)
                         ELSE compileResults(b)
          IN  /\ fetched' = [fetched EXCEPT ![i] =
                    [kind |-> "html", doc |-> doc, loadTime |-> loadTime, cause |-> ""]]
              /\ buckets' = [buckets EXCEPT ![i] = b]
              /\ res' = [res EXCEPT ![i] = Send(@, 200, ResultBody(Str(targetUrl[i]), results))]
    /\ pc' = [pc EXCEPT ![i] = "done"]
    /\ UNCHANGED <<variant, req, bodyRead, targetUrl, gets, console>>

FetchSucceeds(i) == FetchSucceedsWith(i, Docs, LoadTimes)

\* What makes the fetch stage fail: no connection, the 10 s timeout, a status
\* outside 2xx (line 45-47; axios rejects), and for the fetch variant a body
\* that cannot be read (line 49).
FailureCauses(v) ==
    {"network", "timeout", "status"} \cup (IF v = "fetch" THEN {"body"} ELSE {})

\* Mutant: a GET that failed is issued once more before the handler falls
\* back.
FetchFails_RetryOnce(i) ==
    /\ pc[i] = "fetching"
    /\ IF gets[i] < 2
       THEN /\ gets' = [gets EXCEPT ![i] = @ + 1]
            /\ UNCHANGED <<pc, fetched, buckets, res, console>>
       ELSE /\ fetched' = [fetched EXCEPT ![i] =
                  [kind |-> "failure", doc |-> {}, loadTime |-> 0, cause |-> "network"]]
            /\ console' = [console EXCEPT ![i] = Append(@, "Fetch error:")]
            /\ res' = [res EXCEPT ![i] = Send(@, 200, ResultBody(Str(targetUrl[i]), fallbackResults))]
            /\ pc' = [pc EXCEPT ![i] = "done"]
            /\ UNCHANGED <<gets, buckets>>
    /\ UNCHANGED <<variant, req, bodyRead, targetUrl>>

\* lines 60-89 / lines 654-669, 765-770
FetchFails(i) ==
    /\ pc[i] = "fetching"
    /\ \E cause \in FailureCauses(variant[i]) :
          fetched' = [fetched EXCEPT ![i] =
              [kind |-> "failure", doc |-> {}, loadTime |-> 0, cause |-> cause]]
    /\ IF variant[i] = "fetch"
       THEN /\ console' = [console EXCEPT ![i] = Append(@, "Fetch error:")]
            /\ buckets' = buckets
            /\ res' = [res EXCEPT ![i] = Send(@, 200, ResultBody(Str(targetUrl[i]), fallbackResults))]
       ELSE /\ console' = [console EXCEPT ![i] = Append(@, "Analysis error:")]
            /\ buckets' = [buckets EXCEPT ![i] = DomCatch(NewResults(i))]
            /\ res' = [res EXCEPT ![i] =
                  Send(@, 200, ResultBody(Str(targetUrl[i]), compileResults(DomCatch(NewResults(i)))))]
    /\ pc' = [pc EXCEPT ![i] = "done"]
    /\ UNCHANGED <<variant, req, bodyRead, targetUrl, gets>>

\* lines 460-548, 654-669: axios parsed a JSON body, so response.data is an
\* object and no string.  The checks throw a TypeError inside analyzeWebsite's
\* try block: in cheerio.load (line 461) or, at the latest, at html.includes
\* (line 546), after the selectors found nothing in it.
AnalysisThrows(i) ==
    /\ pc[i] = "fetching"
    /\ variant[i] = "dom"
    /\ \E loadTime \in LoadTimes, line \in {461, 546} :
          LET partial == IF line = 461 THEN NewResults(i)
                         ELSE PushAll(NewResults(i), DomBeforeDetection({}, targetUrl[i]))
          IN  /\ fetched' = [fetched EXCEPT ![i] =
                    [kind |-> "json", doc |-> {}, loadTime |-> loadTime, cause |-> "TypeError"]]
              /\ buckets' = [buckets EXCEPT ![i] = DomCatch(partial)]
              /\ res' = [res EXCEPT ![i] =
                    Send(@, 200, ResultBody(Str(targetUrl[i]), compileResults(DomCatch(partial))))]
    /\ console' = [console EXCEPT ![i] = Append(@, "Analysis error:")]
    /\ pc' = [pc EXCEPT ![i] = "done"]
    /\ UNCHANGED <<variant, req, bodyRead, targetUrl, gets>>

\* One request at a time: the hosting runtime serves invocation 1.
Next ==
    \E i \in {1} :
        \/ Receive(i)
        \/ HandleOptions(i)
        \/ HandleOtherMethod(i)
        \/ HandleNoBody(i)
        \/ HandleStub(i)
        \/ HandleMissingUrl(i)
        \/ HandleUrlNotString(i)
        \/ StartFetch(i)
        \/ FetchSucceeds(i)
        \/ FetchFails(i)
        \/ AnalysisThrows(i)

Spec == Init /\ [][Next]_vars

(***************************************************************************)
(* compileResults on its own: any contents of the six buckets.             *)
(***************************************************************************)
SampleItems == {UseHttps, GenericPerformance}

RECURSIVE SeqsUpTo(_, _)
SeqsUpTo(S, n) ==
    IF n = 0 THEN {<<>>}
    ELSE LET shorter == SeqsUpTo(S, n - 1)
         IN  shorter \cup {Append(q, x) : q \in shorter, x \in S}

BucketContents == SeqsUpTo(SampleItems, MaxItems)

InitPresenter ==
    /\ pc = [i \in Invocations |-> IF i = 1 THEN "compile" ELSE "idle"]
    /\ variant = [i \in Invocations |-> IF i = 1 THEN "dom" ELSE ""]
    /\ req = [i \in Invocations |-> NoRequest]
    /\ res = [i \in Invocations |-> NoResponse]
    /\ bodyRead = [i \in Invocations |-> FALSE]
    /\ targetUrl = [i \in Invocations |-> <<>>]
    /\ gets = [i \in Invocations |-> 0]
    /\ fetched = [i \in Invocations |-> NothingFetched]
    /\ \E b \in [seo : BucketContents, performance : BucketContents,
                 wordpress : BucketContents, ux : BucketContents,
                 accessibility : BucketContents, content : BucketContents] :
          buckets = [i \in Invocations |-> IF i = 1 THEN b ELSE EmptyBuckets]
    /\ console = [i \in Invocations |-> <<>>]

\* lines 765-770: compileResults(improvements), then res.json
Compile(i) ==
    /\ pc[i] = "compile"
    /\ res' = [res EXCEPT ![i] =
          Send(@, 200, ResultBody(Str(targetUrl[i]), compileResults(buckets[i])))]
    /\ pc' = [pc EXCEPT ![i] = "done"]
    /\ UNCHANGED <<variant, req, bodyRead, targetUrl, gets, fetched, buckets, console>>

NextPresenter == \E i \in {1} : Compile(i)

SpecPresenter == InitPresenter /\ [][NextPresenter]_vars

(***************************************************************************)
(* Concurrent invocations: the hosting runtime runs any number of calls of *)
(* a handler at once, and their run-to-completion segments interleave at   *)
(* the await of the outbound GET.  The requests and the pages are a sample *)
(* that takes every control path of the handlers.                          *)
(***************************************************************************)
SampleRequests ==
    { [method |-> "OPTIONS", hasBody |-> FALSE, url |-> Undefined],
      [method |-> "GET", hasBody |-> FALSE, url |-> Undefined],
      [method |-> "POST", hasBody |-> FALSE, url |-> Undefined],
      [method |-> "POST", hasBody |-> TRUE, url |-> Undefined],
      [method |-> "POST", hasBody |-> TRUE, url |-> Number42],
      [method |-> "POST", hasBody |-> TRUE, url |-> Str(Host)] }

SampleDocs == { {"img_no_alt"}, {"title_30", "meta_viewport"} }

SampleLoadTimes == {2999, 3001}

\* One run-to-completion segment of invocation i.
Step(i) ==
    \/ HandleOptions(i)
    \/ HandleOtherMethod(i)
    \/ HandleNoBody(i)
    \/ HandleStub(i)
    \/ HandleMissingUrl(i)
    \/ HandleUrlNotString(i)
    \/ StartFetch(i)
    \/ FetchFails(i)
    \/ AnalysisThrows(i)
    \/ FetchSucceedsWith(i, SampleDocs, SampleLoadTimes)

NextConcurrent ==
    \E i \in Invocations :
        \/ ReceiveOneOf(i, SampleRequests)
        \/ Step(i)

SpecConcurrent == Init /\ [][NextConcurrent]_vars

\* Two calls running at once, with the scheduling the code relies on: the
\* event loop runs every segment that is ready, and the GET settles, since
\* it is answered, fails, or is aborted by the 10 s timeout (lines 41, 455).
\* Nothing obliges the runtime to deliver a request.
NextLive ==
    \E i \in {1, 2} :
        \/ ReceiveOneOf(i, SampleRequests)
        \/ Step(i)

SpecLive == Init /\ [][NextLive]_vars /\ \A i \in {1, 2} : WF_vars(Step(i))

(***************************************************************************)
(* Vocabulary of the properties.                                           *)
(***************************************************************************)
Done(i) == pc[i] = "done"

\* The one response of a finished invocation.
Response(i) == res[i].sent[1]

Categories(groups) == [k \in 1..Len(groups) |-> groups[k].category]
Priorities(groups) == [k \in 1..Len(groups) |-> groups[k].priority]

Has(bucket, item) == \E k \in 1..Len(bucket) : bucket[k] = item
HasText(bucket, item) == \E k \in 1..Len(bucket) : bucket[k].text = item.text

\* The fetch stage failed: transport error, timeout, status outside 2xx.
FetchFailed(i) == Done(i) /\ fetched[i].kind = "failure"

\* The document was fetched and analysed.
Analysed(i) == Done(i) /\ fetched[i].kind = "html"

(***************************************************************************)
(* C1.  When the fetch stage fails the handler answers 200 with exactly    *)
(* two groups, 'Site Access' then 'WordPress.com Recommendations', both    *)
(* priority high, and no group of the normal checks.                       *)
(***************************************************************************)
C1_FallbackGroups ==
    \A i \in Invocations :
        FetchFailed(i) =>
            /\ Len(res[i].sent) = 1
            /\ Response(i).status = 200
            /\ Response(i).body.kind = "result"
            /\ Categories(Response(i).body.improvements)
                  = <<"Site Access", "WordPress.com Recommendations">>
            /\ Priorities(Response(i).body.improvements) = <<"high", "high">>

\* C1 on the fetch variant alone (lines 60-89), where it holds.
C1_FetchVariant ==
    \A i \in Invocations :
        FetchFailed(i) /\ variant[i] = "fetch" =>
            /\ res[i].sent = <<[status |-> 200,
                                body |-> ResultBody(Str(targetUrl[i]), fallbackResults)]>>
            /\ Categories(Response(i).body.improvements)
                  = <<"Site Access", "WordPress.com Recommendations">>
            /\ Priorities(Response(i).body.improvements) = <<"high", "high">>

(***************************************************************************)
(* C2.  An exception that is no fetch-stage failure (reading the url from  *)
(* the body, normalising it, analysing the fetched document) is answered   *)
(* with 500 {error: 'Analysis failed'}, never with 200 and advisories.     *)
(***************************************************************************)
\* The invocation raised such an exception.
InternalError(i) ==
    /\ Done(i)
    /\ req[i].method = "POST"
    /\ \/ ~req[i].hasBody
       \/ variant[i] # "stub" /\ Truthy(req[i].url) /\ req[i].url.kind # "string"
       \/ fetched[i].kind = "json"

C2_InternalErrorIs500 ==
    \A i \in Invocations :
        InternalError(i) =>
            res[i].sent = <<[status |-> 500, body |-> ErrorBody("Analysis failed")]>>

\* C2 for the exceptions raised before the fetch, where it holds.
C2_BeforeFetch ==
    \A i \in Invocations :
        InternalError(i) /\ fetched[i].kind = "none" =>
            /\ res[i].sent = <<[status |-> 500, body |-> ErrorBody("Analysis failed")]>>
            /\ console[i] = <<"Server error:">>

(***************************************************************************)
(* C3.  A POST whose JSON body has no url (absent or empty) is answered    *)
(* with 400 {error: 'URL is required'}, never with 200 and improvements.   *)
(***************************************************************************)
NoUrlPosted(i) ==
    /\ Done(i)
    /\ req[i].method = "POST"
    /\ req[i].hasBody
    /\ req[i].url \in {Undefined, Str(<<>>)}

UrlPosted(i) ==
    /\ Done(i)
    /\ req[i].method = "POST"
    /\ req[i].hasBody
    /\ req[i].url.kind = "string"
    /\ req[i].url.chars # <<>>

\* The first n characters of s (all of s when it is shorter).
FirstChars(s, n) == [k \in 1..(IF Len(s) < n THEN Len(s) ELSE n) |-> s[k]]

ExpectedUrl(input) ==
    IF    FirstChars(input, 7) = <<"h", "t", "t", "p", ":", "/", "/">>
       \/ FirstChars(input, 8) = <<"h", "t", "t", "p", "s", ":", "/", "/">>
    THEN input
    ELSE <<"h", "t", "t", "p", "s", ":", "/", "/">> \o input

C5_MethodDispatch ==
    \A i \in Invocations :
        Done(i) /\ req[i].method \notin {"POST", ""} =>
            /\ res[i].sent =
                  IF req[i].method = "OPTIONS"
                  THEN <<[status |-> 200, body |-> EmptyBody]>>
                  ELSE <<[status |-> 405, body |-> ErrorBody("Method not allowed")]>>
            /\ ~bodyRead[i]
            /\ gets[i] = 0
            /\ buckets[i] = EmptyBuckets

\* A GET that carries a body without url has been answered 405.
C5_Witness ==
    \E i \in Invocations :
        /\ Done(i)
        /\ req[i].method = "GET"
        /\ req[i].hasBody
        /\ req[i].url = Undefined
        /\ Response(i).status = 405

(***************************************************************************)
(* C6.  Title checks emit at most one SEO advisory: no title element gives *)
(* 'missing title'; a present title longer than 60 gives 'title too long'  *)
(* with its length (60 does not, 61 does); shorter than 30 gives 'title    *)
(* too short'; of length 30..60 gives none.  Length is that of the         *)
(* trimmed title text.                                                     *)
(***************************************************************************)
TitleAdvisories(bucket) ==
    SelectSeq(bucket, LAMBDA item : item.text \in {MissingTitle.text, TitleTooLong(0).text,
                                                   TitleTooShort.text})

ExpectedTitleAdvisory(titles) ==
    IF titles = <<>> THEN <<MissingTitle>>
    ELSE LET n == Len(Trim(titles[1].text))
         IN  IF n > 60 THEN <<TitleTooLong(n)>>
             ELSE IF n < 30 THEN <<TitleTooShort>>
             ELSE <<>>

C6_TitleChecks ==
    \A i \in Invocations :
        Analysed(i) /\ Len(ElsOf(fetched[i].doc, "title")) <= 1 =>
            TitleAdvisories(buckets[i].seo)
                = ExpectedTitleAdvisory(ElsOf(fetched[i].doc, "title"))

\* C6 where it holds: at most one title advisory; and the claimed advisory for
\* no title and for one title whose trimmed text is non-empty and on one line.
C6_OneLineNonEmpty ==
    \A i \in Invocations :
        Analysed(i) =>
            LET titles == ElsOf(fetched[i].doc, "title")
            IN  /\ Len(TitleAdvisories(buckets[i].seo)) <= 1
                /\ (\/ titles = <<>>
                    \/ /\ Len(titles) = 1
                       /\ Trim(titles[1].text) # <<>>
                       /\ ~Includes(titles[1].text, <<"\n">>))
                   => TitleAdvisories(buckets[i].seo) = ExpectedTitleAdvisory(titles)

(***************************************************************************)
(* C7.  For a fetched document detected as WordPress the wordpress bucket  *)
(* is exactly: 'WordPress site detected'; the theme advisory iff a theme   *)
(* name is extracted after 'wp-content/themes/'; 'install Jetpack' iff the *)
(* html does not contain 'jetpack'; 'optimize images' last.                *)
(***************************************************************************)
\* The handler's own detection.
DetectedAsWordPress(i) ==
    IF variant[i] = "fetch" THEN FetchIsWordPress(fetched[i].doc)
    ELSE DomIsWordPress(fetched[i].doc)

ExpectedWordPressBucket(doc) ==
    <<WordPressDetected>>
    \o Opt(ThemeMatch(Toks(doc)) # <<>>, ThemeInUse(ThemeMatch(Toks(doc))))
    \o Opt(~Includes(Toks(doc), <<"jetpack">>), InstallJetpack)
    \o <<OptimizeImages>>

C7_WordPressBucket ==
    \A i \in Invocations :
        Analysed(i) /\ DetectedAsWordPress(i) =>
            buckets[i].wordpress = ExpectedWordPressBucket(fetched[i].doc)

\* C7 on the dom variant alone (lines 545-573, 631-637), where it holds.
C7_DomVariant ==
    \A i \in Invocations :
        Analysed(i) /\ DetectedAsWordPress(i) /\ variant[i] = "dom" =>
            buckets[i].wordpress = ExpectedWordPressBucket(fetched[i].doc)

(***************************************************************************)
(* C8.  For a fetched document not detected as WordPress the wordpress     *)
(* bucket holds exactly the advisory recommending migration, and the       *)
(* 'WordPress.com Specific' group appears with exactly that item.          *)
(***************************************************************************)
C8_MigrationAdvisory ==
    \A i \in Invocations :
        Analysed(i) /\ ~DetectedAsWordPress(i) =>
            /\ buckets[i].wordpress = <<MigrateToWordPress>>
            /\ \E k \in 1..Len(Response(i).body.improvements) :
                  /\ Response(i).body.improvements[k].category = "WordPress.com Specific"
                  /\ Response(i).body.improvements[k].items = <<MigrateToWordPress>>

\* C8 on the fetch variant alone (lines 328-333), where it holds.
C8_FetchVariant ==
    \A i \in Invocations :
        Analysed(i) /\ ~DetectedAsWordPress(i) /\ variant[i] = "fetch" =>
            /\ buckets[i].wordpress = <<MigrateToWordPress>>
            /\ \E k \in 1..Len(Response(i).body.improvements) :
                  /\ Response(i).body.improvements[k].category = "WordPress.com Specific"
                  /\ Response(i).body.improvements[k].items = <<MigrateToWordPress>>

(***************************************************************************)
(* C9.  Presenter: the output groups are exactly the non-empty buckets, in *)
(* the order SEO Optimization, WordPress.com Specific, Performance, User   *)
(* Experience, Content & Structure, Accessibility, each with its icon and  *)
(* priority and its items in insertion order; no group with an empty items *)
(* list appears in a response.                                             *)
(***************************************************************************)
PresenterTable ==
    << [bucket |-> "seo", category |-> "SEO Optimization", icon |-> "magnifier", priority |-> "high"],
       [bucket |-> "wordpress", category |-> "WordPress.com Specific", icon |-> "bolt", priority |-> "high"],
       [bucket |-> "performance", category |-> "Performance", icon |-> "rocket", priority |-> "medium"],
       [bucket |-> "ux", category |-> "User Experience", icon |-> "person", priority |-> "medium"],
       [bucket |-> "content", category |-> "Content & Structure", icon |-> "writing hand", priority |-> "medium"],
       [bucket |-> "accessibility", category |-> "Accessibility", icon |-> "wheelchair", priority |-> "low"] >>

ExpectedGroups(b) ==
    LET rows == SelectSeq(PresenterTable, LAMBDA r : b[r.bucket] # <<>>)
    IN  [k \in 1..Len(rows) |->
            [category |-> rows[k].category, icon |-> rows[k].icon,
             priority |-> rows[k].priority, items |-> b[rows[k].bucket]]]

\* The response was built from the buckets.
Presented(i) ==
    /\ Done(i)
    /\ Len(res[i].sent) >= 1
    /\ Response(i).body.kind = "result"
    /\ \/ variant[i] = "dom"
       \/ variant[i] = "fetch" /\ fetched[i].kind = "html"

C10_GenericAdvisories ==
    \A i \in Invocations :
        Analysed(i) =>
            LET perf == buckets[i].performance
                ux == buckets[i].ux
            IN  /\ HasText(perf, SlowLoad(0)) <=> fetched[i].loadTime > 3000
                /\ Has(perf, GenericPerformance) <=> ~HasText(perf, SlowLoad(0))
                /\ Has(perf, GenericPerformance) => perf = <<GenericPerformance>>
                /\ Has(ux, GenericCallToAction)
                      <=> ~Has(ux, MissingViewport) /\ ~Has(ux, NoContactInfo)
                /\ Has(ux, GenericCallToAction) => ux = <<GenericCallToAction>>

\* A page that loaded in exactly 3000 ms, with a viewport tag and a contact
\* word: both buckets hold their generic advisory only.
C10_Witness ==
    \E i \in Invocations :
        /\ Analysed(i)
        /\ fetched[i].loadTime = 3000
        /\ buckets[i].performance = <<GenericPerformance>>
        /\ buckets[i].ux = <<GenericCallToAction>>

(***************************************************************************)
(* C11.  After a successful analysis the accessibility bucket holds the    *)
(* 'images without alt text' advisory iff the number of <img> elements     *)
(* that lack an alt attribute is greater than 0, and the advisory carries  *)
(* that number; an <img> with an alt attribute (alt="" included) is not    *)
(* counted; without <img> tags the bucket is empty and the response has    *)
(* no 'Accessibility' group.                                               *)
(***************************************************************************)
\* <img> elements of the document that have no alt attribute (attribute
\* names of HTML are case-insensitive: ALT="x" is an alt attribute).
LackingAlt(doc) ==
    Len(SelectSeq(ElsOf(doc, "img"), LAMBDA e : e.alt \in {"none", "data"}))

HasGroup(i, category) ==
    \E k \in 1..Len(Response(i).body.improvements) :
        Response(i).body.improvements[k].category = category

AccessibilityAsSpecified(i) ==
    LET n == LackingAlt(fetched[i].doc)
    IN  /\ buckets[i].accessibility = Opt(n > 0, ImagesWithoutAlt(n))
        /\ HasGroup(i, "Accessibility") <=> n > 0

C11_AccessibilityCheck ==
    \A i \in Invocations : Analysed(i) => AccessibilityAsSpecified(i)

\* Where the claim does hold: in both handlers, on the documents whose <img>
\* tags either carry no attribute with 'alt' in its name or carry a
\* non-empty lower-case alt="...".
C11_PlainAlt ==
    \A i \in Invocations :
        /\ Analysed(i)
        /\ \A k \in 1..Len(ElsOf(fetched[i].doc, "img")) :
               ElsOf(fetched[i].doc, "img")[k].alt \in {"none", "text"}
        => AccessibilityAsSpecified(i)

(***************************************************************************)
(* C12.  Under any interleaving of concurrently running invocations, the   *)
(* improvements an invocation answers with are a function of its own       *)
(* normalised url, the document its GET fetched (or the failure of the     *)
(* fetch) and the load time; two invocations of a handler with the same    *)
(* url, the same document and the same load time answer with identical     *)
(* improvements; and the buckets of an invocation hold no item that        *)
(* another invocation added.                                               *)
(***************************************************************************)
\* What the analysis of handler v pushes for url and what was fetched.
BucketsOf(v, url, f) ==
    IF f.kind = "html"
    THEN IF v = "fetch" THEN AnalyzeHTMLBuckets(f.doc, url, f.loadTime)
         ELSE analyzeWebsite(f.doc, url, f.loadTime)
    ELSE IF v = "fetch" THEN EmptyBuckets ELSE DomCatch(EmptyBuckets)

ImprovementsOf(v, url, f) ==
    IF v = "dom" THEN compileResults(BucketsOf(v, url, f))
    ELSE IF f.kind = "html" THEN AnalyzeHTMLCompile(BucketsOf(v, url, f))
    ELSE fallbackResults

\* The GET of invocation i was answered with a page, or failed.
Settled(i) == Done(i) /\ fetched[i].kind \in {"html", "failure"}

SameInputs(i, j) ==
    /\ variant[i] = variant[j]
    /\ targetUrl[i] = targetUrl[j]
    /\ fetched[i].kind = fetched[j].kind
    /\ fetched[i].doc = fetched[j].doc
    /\ fetched[i].loadTime = fetched[j].loadTime

C12_Independent ==
    /\ \A i \in Invocations :
          /\ Settled(i) =>
                /\ buckets[i] = BucketsOf(variant[i], targetUrl[i], fetched[i])
                /\ Response(i).body.improvements
                      = ImprovementsOf(variant[i], targetUrl[i], fetched[i])
          /\ fetched[i].kind = "json" =>
                buckets[i] \in { DomCatch(EmptyBuckets),
                                 DomCatch(DomBeforeDetection({}, targetUrl[i])) }
          /\ fetched[i].kind = "none" => buckets[i] = EmptyBuckets
    /\ \A i, j \in Invocations :
          Settled(i) /\ Settled(j) /\ SameInputs(i, j) =>
              Response(i).body.improvements = Response(j).body.improvements

\* Two invocations of one handler have both analysed the page with one
\* image without alt text, fetched in the same time from the same url.
C12_Witness ==
    \E i, j \in Invocations :
        /\ i # j
        /\ Analysed(i) /\ Analysed(j)
        /\ SameInputs(i, j)
        /\ fetched[i].doc = {"img_no_alt"}
        /\ buckets[i].accessibility = <<ImagesWithoutAlt(1)>>
        /\ buckets[j].accessibility = <<ImagesWithoutAlt(1)>>

(***************************************************************************)
(* C13.  Every invocation sends exactly one response: on every control     *)
(* path (OPTIONS, a method other than POST, no url, analysis, failure of   *)
(* the fetch, internal error) a request that was received is eventually    *)
(* answered, an invocation is finished iff it has sent one response, and   *)
(* once a response is sent no step sends another.                          *)
(***************************************************************************)
Responses(i) == Len(res[i].sent)

C13_ExactlyOneResponse ==
    /\ [](\A i \in Invocations : Responses(i) <= 1 /\ (Done(i) <=> Responses(i) = 1))
    /\ [][\A i \in Invocations : Responses(i) = 1 => res'[i].sent = res[i].sent]_vars
    /\ \A i \in Invocations : (pc[i] = "received") ~> (Responses(i) = 1)

\* One invocation answered after its GET timed out, while another one had
\* answered 500 to a POST without a body.
C13_Witness ==
    \E i, j \in Invocations :
        /\ FetchFailed(i) /\ fetched[i].cause = "timeout"
        /\ Responses(i) = 1 /\ Response(i).status = 200
        /\ Done(j) /\ ~req[j].hasBody /\ req[j].method = "POST"
        /\ Responses(j) = 1 /\ Response(j).status = 500

(***************************************************************************)
(* C14.  An invocation issues at most one GET to the target url: a fetch   *)
(* that failed or timed out is not retried, and no GET is issued for an    *)
(* OPTIONS request, for a method other than POST, or for a POST without a  *)
(* url; the url is validated before the GET is issued.                     *)
(***************************************************************************)
C14_AtMostOneGet ==
    \A i \in Invocations :
        /\ gets[i] <= 1
        /\ FetchFailed(i) => gets[i] = 1
        /\ pc[i] # "idle" /\ req[i].method # "POST" => gets[i] = 0
        /\ pc[i] # "idle" /\ (~req[i].hasBody \/ ~Truthy(req[i].url)) => gets[i] = 0
        /\ gets[i] > 0 =>
              /\ bodyRead[i]
              /\ req[i].method = "POST"
              /\ req[i].url.kind = "string" /\ req[i].url.chars # <<>>
              /\ targetUrl[i] = NormalizeUrl(req[i].url.chars)

\* The GET timed out and the handler has answered: one GET was issued.
C14_Witness ==
    \E i \in Invocations :
        /\ FetchFailed(i)
        /\ fetched[i].cause = "timeout"
        /\ Responses(i) = 1
        /\ gets[i] = 1

=============================================================================
